---- MODULE Spec2Model ----
(***************************************************************************)
(* A model of the ZIM reader of zimply.py: the directory of an archive,    *)
(* lookup by index and by (namespace, url), redirect resolution, clusters  *)
(* and their blob offset tables, the LRU cache of ClusterData objects,     *)
(* metadata enumeration, iteration, the index store of ZIMServer, the      *)
(* reading of zero-terminated strings, the helper binary_search and two    *)
(* lookups that share the file handle.                                     *)
(*                                                                         *)
(* Strings are sequences of code points, so that comparison, lowercasing   *)
(* and concatenation are computed, not assumed.  Bytes are numbers 0..255. *)
(* Directory indices are 0-based as in the code; TLA+ sequences are        *)
(* 1-based, so entry i of the archive is dir[i + 1].                       *)
(***************************************************************************)
EXTENDS Integers, Sequences, FiniteSets, TLC

VARIABLES
    dir,        \* the directory: the entries the URL-pointer table refers to, in order
    beyond,     \* what decoding the bytes just past the URL-pointer table yields
    clusters,   \* the cluster-pointer table and the clusters it refers to
    blobs,      \* per cluster, the blobs the archive's writer put into it
    cache,      \* the lru_cache of ClusterData objects, least recently used first
    call,       \* the last operation called, with its arguments
    ret,        \* what that operation returned or raised
    miss,       \* whether the last _read_blob constructed a ClusterData
    recency,    \* history: the clusters read so far, in order of their last read
    lastData,   \* history: per (cluster, blob) read so far, the bytes last returned
    gap,        \* history: how many other clusters were read between the last
                \* read and the read of the same cluster before it (-1: none before)
    probed,     \* the directory indices the last _get_entry_by_url read
    index_file, \* the index store at the index path of ZIMServer, or Absent
    reader,     \* a call of read_zero_terminated in progress: its file and position
    position,   \* the position of the file handle the concurrent lookups share
    lookups     \* per concurrent lookup: where it stands and what it has read

vars == <<dir, beyond, clusters, blobs, cache, call, ret, miss, recency, lastData, gap,
          probed, index_file, reader, position, lookups>>

-----------------------------------------------------------------------------
(* Bounds of the model *)

MaxEntries == 3

\* The redirect chase is recursive; the interpreter ends a recursion deeper
\* than its limit with RecursionError.  The limit is far above the chain
\* lengths the model builds.
RecursionLimit == MaxEntries + 3

\* The clusters of the cluster specification hold at most MaxBlobs blobs of
\* at most MaxBlobLen bytes each.
MaxBlobs == 2
MaxBlobLen == 2

\* The cache specification reads ExtraClusters clusters more than the cache
\* holds: cluster 0 at any time and again, the others once each, in order.
ExtraClusters == 2

\* The string specification reads files of at most MaxFileLen bytes, and
\* follows a read at the end of the file for MaxEofReads reads.
MaxFileLen == 3
MaxEofReads == 3

\* The search specification searches functions of at most MaxItems values.
MaxItems == 3

-----------------------------------------------------------------------------
(* Program constants *)

Slash == 47
NsA == 65
NsM == 77
RedirectMime == 65535
LZMA2 == 4
CacheSize == 32
ZERO == 0

-----------------------------------------------------------------------------
(* Strings *)

Min(a, b) == IF a < b THEN a ELSE b

\* Python's < on str: lexicographic by code point, a proper prefix is smaller.
StrLess(a, b) ==
    \E i \in 1..(Len(b)) :
        /\ \A j \in 1..(i - 1) : j <= Len(a) /\ a[j] = b[j]
        /\ (i > Len(a) \/ (i <= Len(a) /\ a[i] < b[i]))
        /\ i - 1 <= Len(a)

\* str.lower() on the ASCII letters
lower(s) == [i \in 1..Len(s) |-> IF s[i] \in 65..90 THEN s[i] + 32 ELSE s[i]]

full_url(namespace, url) == <<namespace>> \o <<Slash>> \o url

-----------------------------------------------------------------------------
(* Values returned and raised *)

\* Every value is a record, so that any two of them can be compared:
\* None, a raised exception, bytes, a str and a number differ by their field.
None == [none |-> TRUE]
Raise(e) == [raise |-> e]
Bytes(b) == [bytes |-> b]
Str(s) == [str |-> s]
Num(n) == [num |-> n]
IsRaise(v) == "raise" \in DOMAIN v

Article(data, namespace, mimetype) ==
    [data |-> data, namespace |-> namespace, mimetype |-> mimetype]

-----------------------------------------------------------------------------
(* The archives the model reads *)

mimetype_list == <<"text/html", "text/plain">>

\* The article entries archives are made of, in increasing order of full URL:
\* A/b, M/B, M/b, X/b.  The two urls of namespace M differ in case only.
Corpus == <<
    [mimetype |-> 0, namespace |-> NsA, url |-> <<98>>, title |-> "Bee",
     clusterNumber |-> 0, blobNumber |-> 0],
    [mimetype |-> 1, namespace |-> NsM, url |-> <<66>>, title |-> "Title",
     clusterNumber |-> 1, blobNumber |-> 0],
    [mimetype |-> 1, namespace |-> NsM, url |-> <<98>>, title |-> "",
     clusterNumber |-> 1, blobNumber |-> 1],
    [mimetype |-> 0, namespace |-> 88, url |-> <<98>>, title |-> "index",
     clusterNumber |-> 0, blobNumber |-> 1] >>

\* A redirect entry with the namespace, url and title of e
RedirectEntry(e, target) ==
    [mimetype |-> RedirectMime, namespace |-> e.namespace, url |-> e.url,
     title |-> e.title, redirectIndex |-> target]

IsRedirect(entry) == "redirectIndex" \in DOMAIN entry

\* The elements of S (a set of indices into Corpus) in increasing order
Sorted(S) ==
    [i \in 1..Cardinality(S) |->
        CHOOSE k \in S : Cardinality({j \in S : j < k}) = i - 1]

\* The directories over the corpus entries picked by `keys`: each entry is
\* the article itself or a redirect to any index of the directory.
DirsOver(keys) ==
    LET n == Len(keys) IN
    { [i \in 1..n |-> IF kind[i] = n THEN Corpus[keys[i]]
                      ELSE RedirectEntry(Corpus[keys[i]], kind[i])] :
        kind \in [1..n -> 0..n] }

Directories ==
    UNION { DirsOver(Sorted(S)) :
        S \in { T \in SUBSET (1..Len(Corpus)) : Cardinality(T) <= MaxEntries } }

\* Strictly increasing by full URL, as the format requires of the URL-pointer table
IsSorted(d) ==
    \A i \in 1..(Len(d) - 1) :
        StrLess(full_url(d[i].namespace, d[i].url),
                full_url(d[i + 1].namespace, d[i + 1].url))

-----------------------------------------------------------------------------
(* Clusters: the bytes on disk *)

\* pack("<I", v) and unpack("<I", b): 32-bit little-endian
pack_I(v) ==
    <<v % 256, (v \div 256) % 256, (v \div 65536) % 256, (v \div 16777216) % 256>>

unpack_I(b) == b[1] + 256 * b[2] + 65536 * b[3] + 16777216 * b[4]

\* buffer.seek(pos); buffer.read(n): at most n bytes, fewer at the end
read(buffer, pos, n) == SubSeq(buffer, pos + 1, Min(pos + n, Len(buffer)))

RECURSIVE Concat(_)
Concat(seqs) == IF seqs = <<>> THEN <<>> ELSE Head(seqs) \o Concat(Tail(seqs))

RECURSIVE SumLen(_, _)
SumLen(seqs, n) == IF n = 0 THEN 0 ELSE Len(seqs[n]) + SumLen(seqs, n - 1)

\* The body of a cluster that holds `blob_list`: the offset table, of
\* Len(blob_list) + 1 offsets relative to the start of the body, then the blob_list.
ClusterBody(blob_list) ==
    LET k == Len(blob_list)
        table == [i \in 1..(k + 1) |-> pack_I(4 * (k + 1) + SumLen(blob_list, i - 1))]
    IN Concat(table) \o Concat(blob_list)

\* A stand-in for the LZMA2 codec, which the code takes from a library:
\* each byte of the stream is the difference to the previous byte of the body.
compress(body) ==
    [i \in 1..Len(body) |->
        IF i = 1 THEN body[1] ELSE (body[i] - body[i - 1] + 256) % 256]

RECURSIVE decompress_from(_, _, _)
decompress_from(stream, i, prev) ==
    IF i > Len(stream) THEN <<>>
    ELSE LET b == (prev + stream[i]) % 256
         IN <<b>> \o decompress_from(stream, i + 1, b)

decompress(stream) == decompress_from(stream, 1, 0)

\* A cluster at byte offset `offset` of the file: the compressionType byte
\* and the bytes that follow it.
Cluster(offset, compressionType, blob_list) ==
    [offset |-> offset, compressionType |-> compressionType,
     stream |-> IF compressionType = LZMA2 THEN compress(ClusterBody(blob_list))
                ELSE ClusterBody(blob_list)]

\* The clusters of the archives over Corpus: a raw one and a compressed one,
\* of two blobs each.
CorpusBlobs == <<
    << <<104, 105>>, <<120>> >>,
    << <<87, 105, 107, 105>>, <<101, 110, 103>> >> >>

CorpusClusters == <<
    Cluster(1000, 1, CorpusBlobs[1]),
    Cluster(2000, LZMA2, CorpusBlobs[2]) >>

-----------------------------------------------------------------------------
(* ClusterData and its cache *)

read_cluster_offset(index) == clusters[index + 1].offset

ClusterAt(offset) ==
    clusters[CHOOSE i \in 1..Len(clusters) : clusters[i].offset = offset]

\* read_offsets that takes the first offset / 4 - 1 for the length of the
\* whole table
read_offsets_short(buffer) ==
    LET offset0 == unpack_I(read(buffer, 0, 4))
        number_of_blobs == offset0 \div 4
    IN <<offset0>> \o
       [idx \in 1..(number_of_blobs - 2) |-> unpack_I(read(buffer, 4 * idx, 4))]

\* ClusterData._read_offsets: the first offset, then first offset / 4 - 1 more
read_offsets(buffer) ==
    LET offset0 == unpack_I(read(buffer, 0, 4))
        number_of_blobs == offset0 \div 4
    IN <<offset0>> \o
       [idx \in 1..(number_of_blobs - 1) |-> unpack_I(read(buffer, 4 * idx, 4))]

\* ClusterData.__init__: the object built for the cluster at `offset`
ClusterData(offset) ==
    LET cluster_info == ClusterAt(offset)
        compressed == cluster_info.compressionType = LZMA2
        buffer == IF compressed THEN decompress(cluster_info.stream) ELSE <<>>
    IN [offset |-> offset,
        compressed |-> compressed,
        buffer |-> buffer,
        offsets |-> read_offsets(IF compressed THEN buffer
                                 ELSE cluster_info.stream)]

\* ClusterData._source_buffer: the decompressed buffer, or the file at the
\* start of the body
source_buffer(self) ==
    IF self.compressed THEN self.buffer ELSE ClusterAt(self.offset).stream

\* read_blob that checks the index against the number of offsets, not of
\* blobs: the end offset of blob len(offsets) - 1 is then missing
read_blob_loose(self, blob_index) ==
    IF blob_index >= Len(self.offsets)
    THEN Raise("IOError")
    ELSE IF blob_index + 2 > Len(self.offsets)
    THEN Raise("IndexError")
    ELSE LET buffer == source_buffer(self)
             blob_size == self.offsets[blob_index + 2] - self.offsets[blob_index + 1]
         IN Bytes(read(buffer, self.offsets[blob_index + 1], blob_size))

\* ClusterData.read_blob
read_blob(self, blob_index) ==
    IF blob_index >= Len(self.offsets) - 1
    THEN Raise("IOError")
    ELSE LET buffer == source_buffer(self)
             blob_size == self.offsets[blob_index + 2] - self.offsets[blob_index + 1]
         IN Bytes(read(buffer, self.offsets[blob_index + 1], blob_size))

\* lru_cache that holds one object fewer: it evicts when maxsize - 1 are cached
lru_cache_one_less(cch, offset) ==
    IF \E i \in 1..Len(cch) : cch[i].offset = offset
    THEN LET i == CHOOSE j \in 1..Len(cch) : cch[j].offset = offset
         IN [data |-> cch[i],
             cache |-> SubSeq(cch, 1, i - 1) \o SubSeq(cch, i + 1, Len(cch))
                       \o <<cch[i]>>,
             miss |-> FALSE]
    ELSE LET data == ClusterData(offset)
             full == Len(cch) >= CacheSize - 1
         IN [data |-> data,
             cache |-> (IF full THEN Tail(cch) ELSE cch) \o <<data>>,
             miss |-> TRUE]

\* lru_cache that leaves the order alone on a hit: the object dropped from
\* a full cache is the one built first
lru_cache_fifo(cch, offset) ==
    IF \E i \in 1..Len(cch) : cch[i].offset = offset
    THEN LET i == CHOOSE j \in 1..Len(cch) : cch[j].offset = offset
         IN [data |-> cch[i], cache |-> cch, miss |-> FALSE]
    ELSE LET data == ClusterData(offset)
             full == Len(cch) >= CacheSize
         IN [data |-> data,
             cache |-> (IF full THEN Tail(cch) ELSE cch) \o <<data>>,
             miss |-> TRUE]

\* @lru_cache(maxsize=32) around ClusterData: a hit moves the object to the
\* most recently used end; a miss builds it, and drops the least recently
\* used object when the cache is full.
lru_cache(cch, offset) ==
    IF \E i \in 1..Len(cch) : cch[i].offset = offset
    THEN LET i == CHOOSE j \in 1..Len(cch) : cch[j].offset = offset
         IN [data |-> cch[i],
             cache |-> SubSeq(cch, 1, i - 1) \o SubSeq(cch, i + 1, Len(cch))
                       \o <<cch[i]>>,
             miss |-> FALSE]
    ELSE LET data == ClusterData(offset)
             full == Len(cch) >= CacheSize
         IN [data |-> data,
             cache |-> (IF full THEN Tail(cch) ELSE cch) \o <<data>>,
             miss |-> TRUE]

\* ZIMFile._read_blob, on cache cch: the value, the cache afterwards and
\* whether a ClusterData was built
zim_read_blob(cch, cluster_index, blob_index) ==
    LET offset == read_cluster_offset(cluster_index)
        cluster_data == lru_cache(cch, offset)
    IN [val |-> read_blob(cluster_data.data, blob_index),
        cache |-> cluster_data.cache,
        miss |-> cluster_data.miss]

-----------------------------------------------------------------------------
(* ZIMFile: the directory *)

articleCount == Len(dir)

WithIndex(entry, index) ==
    [f \in DOMAIN entry \cup {"index"} |->
        IF f = "index" THEN index ELSE entry[f]]

\* ZIMFile.read_directory_entry_by_index.  The code checks no bound: for an
\* index past the URL-pointer table it decodes whatever bytes follow the
\* table, which fails or yields some entry, as the file has it (`beyond`).
read_directory_entry_by_index(index) ==
    IF index < articleCount THEN WithIndex(dir[index + 1], index)
    ELSE IF IsRaise(beyond) THEN beyond
    ELSE WithIndex(beyond, index)

\* search_loop with the loop condition of an exclusive end, `front < end`,
\* while end still moves to middle - 1
RECURSIVE search_loop_exclusive(_, _, _, _)
search_loop_exclusive(front, end, middle, title) ==
    IF ~(front < end) THEN [found |-> FALSE, middle |-> middle]
    ELSE LET mid == (front + end) \div 2
             entry == read_directory_entry_by_index(mid)
         IN IF IsRaise(entry) THEN entry
            ELSE LET found_title == full_url(entry.namespace, entry.url)
                 IN IF found_title = title
                    THEN [found |-> TRUE, middle |-> mid]
                    ELSE IF StrLess(found_title, title)
                    THEN search_loop_exclusive(mid + 1, end, mid, title)
                    ELSE search_loop_exclusive(front, mid - 1, mid, title)

\* The loop of the binary search of ZIMFile._get_entry_by_url
RECURSIVE search_loop(_, _, _, _)
search_loop(front, end, middle, title) ==
    IF ~(front <= end) THEN [found |-> FALSE, middle |-> middle]
    ELSE LET mid == (front + end) \div 2
             entry == read_directory_entry_by_index(mid)
         IN IF IsRaise(entry) THEN entry
            ELSE LET found_title == full_url(entry.namespace, entry.url)
                 IN IF found_title = title
                    THEN [found |-> TRUE, middle |-> mid]
                    ELSE IF StrLess(found_title, title)
                    THEN search_loop(mid + 1, end, mid, title)
                    ELSE search_loop(front, mid - 1, mid, title)

\* The linear scan of ZIMFile._get_entry_by_url
RECURSIVE linear_loop(_, _, _)
linear_loop(idx, namespace, url) ==
    IF idx >= articleCount THEN [entry |-> None, idx |-> None]
    ELSE LET entry == read_directory_entry_by_index(idx)
         IN IF entry.url = url /\ entry.namespace = namespace
            THEN [entry |-> entry, idx |-> Num(idx)]
            ELSE linear_loop(idx + 1, namespace, url)

\* ZIMFile._get_entry_by_url: the pair (entry, idx), or what it raises
get_entry_by_url(namespace, url, linear) ==
    IF linear THEN linear_loop(0, namespace, url)
    ELSE LET r == search_loop(0, articleCount, 0, full_url(namespace, url))
         IN IF IsRaise(r) THEN r
            ELSE IF r.found
            THEN LET entry == read_directory_entry_by_index(r.middle)
                 IN IF IsRaise(entry) THEN entry
                    ELSE [entry |-> entry, idx |-> Num(r.middle)]
            ELSE [entry |-> None, idx |-> None]

\* The directory indices the binary search of ZIMFile._get_entry_by_url
\* passes to read_directory_entry_by_index: the loop of search_loop, with
\* each `middle` it reads collected
RECURSIVE search_probes(_, _, _)
search_probes(front, end, title) ==
    IF ~(front <= end) THEN {}
    ELSE LET mid == (front + end) \div 2
             entry == read_directory_entry_by_index(mid)
         IN {mid} \cup
            IF IsRaise(entry) THEN {}
            ELSE LET found_title == full_url(entry.namespace, entry.url)
                 IN IF found_title = title THEN {}
                    ELSE IF StrLess(found_title, title)
                    THEN search_probes(mid + 1, end, title)
                    ELSE search_probes(front, mid - 1, title)

\* The directory indices ZIMFile._get_entry_by_url reads: those of the
\* binary search, or of the linear scan up to the entry it returns
probes(namespace, url, linear) ==
    IF linear
    THEN LET r == linear_loop(0, namespace, url)
         IN IF r.idx = None THEN 0..(articleCount - 1) ELSE 0..r.idx.num
    ELSE search_probes(0, articleCount, full_url(namespace, url))

\* unfollowed_redirect giving the mimetype field of the entry (0xffff)
unfollowed_redirect_mimetype(entry) ==
    Article(None, entry.namespace, Num(entry.mimetype))

\* What ZIMFile._get_article_by_index returns for a redirect entry it does
\* not follow: no data, and the redirect index in place of the mimetype
unfollowed_redirect(entry) ==
    Article(None, entry.namespace, Num(entry.redirectIndex))

\* get_article_by_index following one redirect only: the recursive call
\* does not follow
RECURSIVE get_article_by_index_one_hop(_, _, _, _)
get_article_by_index_one_hop(cch, index, follow_redirect, depth) ==
    IF depth >= RecursionLimit
    THEN [val |-> Raise("RecursionError"), cache |-> cch, miss |-> FALSE]
    ELSE LET entry == read_directory_entry_by_index(index)
         IN IF IsRaise(entry) THEN [val |-> entry, cache |-> cch, miss |-> FALSE]
            ELSE IF IsRedirect(entry)
            THEN IF follow_redirect
                 THEN get_article_by_index_one_hop(cch, entry.redirectIndex,
                                                   FALSE, depth + 1)
                 ELSE [val |-> unfollowed_redirect(entry),
                       cache |-> cch, miss |-> FALSE]
            ELSE LET data == zim_read_blob(cch, entry.clusterNumber,
                                           entry.blobNumber)
                 IN [val |-> IF IsRaise(data.val) THEN data.val
                             ELSE Article(data.val, entry.namespace,
                                          Str(mimetype_list[entry.mimetype + 1])),
                     cache |-> data.cache, miss |-> data.miss]

\* ZIMFile._get_article_by_index on cache cch, at recursion depth `depth`:
\* the value returned or raised, the cache afterwards, and whether a
\* ClusterData was built
RECURSIVE get_article_by_index(_, _, _, _)
get_article_by_index(cch, index, follow_redirect, depth) ==
    IF depth >= RecursionLimit
    THEN [val |-> Raise("RecursionError"), cache |-> cch, miss |-> FALSE]
    ELSE LET entry == read_directory_entry_by_index(index)
         IN IF IsRaise(entry) THEN [val |-> entry, cache |-> cch, miss |-> FALSE]
            ELSE IF IsRedirect(entry)
            THEN IF follow_redirect
                 THEN get_article_by_index(cch, entry.redirectIndex,
                                           follow_redirect, depth + 1)
                 ELSE [val |-> unfollowed_redirect(entry),
                       cache |-> cch, miss |-> FALSE]
            ELSE LET data == zim_read_blob(cch, entry.clusterNumber,
                                           entry.blobNumber)
                 IN [val |-> IF IsRaise(data.val) THEN data.val
                             ELSE Article(data.val, entry.namespace,
                                          Str(mimetype_list[entry.mimetype + 1])),
                     cache |-> data.cache, miss |-> data.miss]

\* Python's truth value of idx in `if idx:`
Truthy(idx) == "num" \in DOMAIN idx /\ idx.num # 0

\* ZIMFile.get_article_by_url
get_article_by_url(cch, namespace, url, follow_redirect) ==
    LET r == get_entry_by_url(namespace, url, FALSE)
    IN IF IsRaise(r) THEN [val |-> r, cache |-> cch, miss |-> FALSE]
       ELSE IF Truthy(r.idx)
       THEN get_article_by_index(cch, r.idx.num, follow_redirect, 0)
       ELSE [val |-> None, cache |-> cch, miss |-> FALSE]

\* dict assignment metadata[k] = v
DictSet(d, k, v) == [x \in DOMAIN d \cup {k} |-> IF x = k THEN v ELSE d[x]]

\* metadata_loop that skips an entry of another namespace and goes on
\* (continue in place of break)
RECURSIVE metadata_loop_continue(_, _, _, _)
metadata_loop_continue(cch, i, md, missed) ==
    IF i < 0 THEN [val |-> [dict |-> md], cache |-> cch, miss |-> missed]
    ELSE LET entry == read_directory_entry_by_index(i)
         IN IF entry.namespace = NsM
            THEN LET m_name == lower(entry.url)
                     art == get_article_by_index(cch, i, TRUE, 0)
                 IN IF IsRaise(art.val) THEN art
                    ELSE metadata_loop_continue(art.cache, i - 1,
                                                DictSet(md, m_name, art.val.data),
                                                art.miss)
            ELSE metadata_loop_continue(cch, i - 1, md, missed)

\* The loop of ZIMFile.metadata, downward from index i
RECURSIVE metadata_loop(_, _, _, _)
metadata_loop(cch, i, md, missed) ==
    IF i < 0 THEN [val |-> [dict |-> md], cache |-> cch, miss |-> missed]
    ELSE LET entry == read_directory_entry_by_index(i)
         IN IF entry.namespace = NsM
            THEN LET m_name == lower(entry.url)
                     art == get_article_by_index(cch, i, TRUE, 0)
                 IN IF IsRaise(art.val) THEN art
                    ELSE metadata_loop(art.cache, i - 1,
                                       DictSet(md, m_name, art.val.data),
                                       art.miss)
            ELSE [val |-> [dict |-> md], cache |-> cch, miss |-> missed]

\* ZIMFile.metadata
metadata(cch) == metadata_loop(cch, articleCount - 1, <<>>, FALSE)

-----------------------------------------------------------------------------
(* The parts of the state that only some specifications use *)

\* No file at the index path
Absent == [absent |-> TRUE]

\* No call of read_zero_terminated in progress
NoReader == [pc |-> "idle"]

\* The concurrent lookups
Procs == {1, 2}
NoLookup == [pc |-> "idle"]

\* Nothing searched, no index store, no string read, no concurrent lookup
Unused ==
    /\ probed = {}
    /\ index_file = Absent
    /\ reader = NoReader
    /\ position = 0
    /\ lookups = [p \in Procs |-> NoLookup]

-----------------------------------------------------------------------------
(* The archive facade: one action per call.  Lookups by url and reads by  *)
(* index meet in the cluster cache only; each has its specification.      *)

\* The keys looked up: every (namespace, url) of the corpus, in the archive or not
Keys == { [namespace |-> Corpus[i].namespace, url |-> Corpus[i].url] :
            i \in 1..Len(Corpus) }

Init ==
    /\ dir \in Directories
    /\ beyond \in {Raise("struct.error"), Corpus[Len(Corpus)]}
    /\ clusters = CorpusClusters
    /\ blobs = CorpusBlobs
    /\ cache = <<>>
    /\ call = [op |-> "init"]
    /\ ret = None
    /\ miss = FALSE
    /\ recency = <<>>
    /\ lastData = <<>>
    /\ gap = -1
    /\ Unused

GetEntryByUrl ==
    \E k \in Keys, linear \in BOOLEAN :
        /\ call' = [op |-> "get_entry_by_url", namespace |-> k.namespace,
                    url |-> k.url, linear |-> linear]
        /\ ret' = get_entry_by_url(k.namespace, k.url, linear)
        /\ probed' = probes(k.namespace, k.url, linear)
        /\ UNCHANGED <<dir, beyond, clusters, blobs, cache, miss,
                       recency, lastData, gap,
                       index_file, reader, position, lookups>>

GetArticleByIndex ==
    \E index \in 0..(articleCount - 1), follow_redirect \in BOOLEAN :
        LET r == get_article_by_index(cache, index, follow_redirect, 0) IN
        /\ call' = [op |-> "get_article_by_index", index |-> index,
                    follow_redirect |-> follow_redirect]
        /\ ret' = r.val
        /\ cache' = r.cache
        /\ miss' = r.miss
        /\ UNCHANGED <<dir, beyond, clusters, blobs, recency, lastData, gap,
                       probed, index_file, reader, position, lookups>>

GetArticleByUrl ==
    \E k \in Keys, follow_redirect \in BOOLEAN :
        LET r == get_article_by_url(cache, k.namespace, k.url, follow_redirect) IN
        /\ call' = [op |-> "get_article_by_url", namespace |-> k.namespace,
                    url |-> k.url, follow_redirect |-> follow_redirect]
        /\ ret' = r.val
        /\ cache' = r.cache
        /\ miss' = r.miss
        /\ probed' = probes(k.namespace, k.url, FALSE)
        /\ UNCHANGED <<dir, beyond, clusters, blobs, recency, lastData, gap,
                       index_file, reader, position, lookups>>

Metadata ==
    LET r == metadata(cache) IN
    /\ call' = [op |-> "metadata"]
    /\ ret' = r.val
    /\ cache' = r.cache
    /\ miss' = r.miss
    /\ UNCHANGED <<dir, beyond, clusters, blobs, recency, lastData, gap,
                       probed, index_file, reader, position, lookups>>

\* Lookups by (namespace, url)
Next == GetEntryByUrl \/ GetArticleByUrl

Spec == Init /\ [][Next]_vars

\* Reads by directory index
NextIndex == GetArticleByIndex \/ Metadata

SpecIndex == Init /\ [][NextIndex]_vars

-----------------------------------------------------------------------------
(* Clusters and blobs: _read_blob on archives of one cluster *)

BlobBytes == {7, 200}

SeqsUpTo(S, n) == UNION { [1..m -> S] : m \in 0..n }

BlobLists == SeqsUpTo(SeqsUpTo(BlobBytes, MaxBlobLen), MaxBlobs)

InitCluster ==
    /\ dir = <<>>
    /\ beyond = Raise("struct.error")
    /\ \E blob_list \in BlobLists, compressionType \in {1, LZMA2} :
        /\ clusters = <<Cluster(80, compressionType, blob_list)>>
        /\ blobs = <<blob_list>>
    /\ cache = <<>>
    /\ call = [op |-> "init"]
    /\ ret = None
    /\ miss = FALSE
    /\ recency = <<>>
    /\ lastData = <<>>
    /\ gap = -1
    /\ Unused

\* ZIMFile._read_blob(cluster_index, blob_index), for any blob index
ReadBlob ==
    \E cluster_index \in 0..(Len(clusters) - 1), blob_index \in 0..(MaxBlobs + 1) :
        LET r == zim_read_blob(cache, cluster_index, blob_index) IN
        /\ call' = [op |-> "read_blob", cluster_index |-> cluster_index,
                    blob_index |-> blob_index]
        /\ ret' = r.val
        /\ cache' = r.cache
        /\ miss' = r.miss
        /\ UNCHANGED <<dir, beyond, clusters, blobs, recency, lastData, gap,
                       probed, index_file, reader, position, lookups>>

NextCluster == ReadBlob

SpecCluster == InitCluster /\ [][NextCluster]_vars

-----------------------------------------------------------------------------
(* Clusters of another compression type: _read_blob on archives of one    *)
(* cluster whose compressionType byte is neither 1 nor 4                   *)

\* The compressionType values of the format other than raw and LZMA2:
\* 0 (the default, uncompressed), 2 (zlib), 3 (bzip2), 5 (zstd)
OtherCompressionTypes == {0, 2, 3, 5}

\* The bytes that follow the type byte are, in these archives, a body in
\* the layout of a raw cluster: that is what type 0 stores, and for any
\* other type it is one of the byte strings the stream may happen to be.
InitCompression ==
    /\ dir = <<>>
    /\ beyond = Raise("struct.error")
    /\ \E blob_list \in BlobLists, compressionType \in OtherCompressionTypes :
        /\ clusters = <<Cluster(80, compressionType, blob_list)>>
        /\ blobs = <<blob_list>>
    /\ cache = <<>>
    /\ call = [op |-> "init"]
    /\ ret = None
    /\ miss = FALSE
    /\ recency = <<>>
    /\ lastData = <<>>
    /\ gap = -1
    /\ Unused

SpecCompression == InitCompression /\ [][NextCluster]_vars

-----------------------------------------------------------------------------
(* The cluster cache: _read_blob on an archive of more clusters than the  *)
(* cache holds, with the history of the reads                             *)

NumClusters == CacheSize + ExtraClusters

\* Cluster c holds the one blob <<c>>, cluster 0 a second one; every other
\* cluster is compressed.
ManyBlobs ==
    [c \in 1..NumClusters |->
        IF c = 1 THEN << <<0>>, <<255, 0>> >> ELSE << <<c - 1>> >>]

ManyClusters ==
    [c \in 1..NumClusters |->
        Cluster(100 * c, IF c % 2 = 0 THEN LZMA2 ELSE 1, ManyBlobs[c])]

InitCache ==
    /\ dir = <<>>
    /\ beyond = Raise("struct.error")
    /\ clusters = ManyClusters
    /\ blobs = ManyBlobs
    /\ cache = <<>>
    /\ call = [op |-> "init"]
    /\ ret = None
    /\ miss = FALSE
    /\ recency = <<>>
    /\ lastData = <<>>
    /\ gap = -1
    /\ Unused

InRecency(c) == \E i \in 1..Len(recency) : recency[i] = c

\* The clusters a read may name now: cluster 0, or the next one not yet read
Readable ==
    { c \in 0..(NumClusters - 1) :
        \/ c = 0
        \/ /\ ~InRecency(c)
           /\ \A d \in 1..(c - 1) : InRecency(d) }

\* The number of other clusters read since cluster c was last read, -1 if
\* it was not read
OthersSince(c) ==
    IF InRecency(c)
    THEN Len(recency) - (CHOOSE i \in 1..Len(recency) : recency[i] = c)
    ELSE -1

\* recency with c moved to its end
Touch(c) == SelectSeq(recency, LAMBDA d : d # c) \o <<c>>

\* ZIMFile._read_blob(cluster_index, blob_index), and the history of it
CacheReadBlob ==
    \E cluster_index \in Readable :
    \E blob_index \in 0..(Len(blobs[cluster_index + 1]) - 1) :
        LET r == zim_read_blob(cache, cluster_index, blob_index) IN
        /\ call' = [op |-> "read_blob", cluster_index |-> cluster_index,
                    blob_index |-> blob_index]
        /\ ret' = r.val
        /\ cache' = r.cache
        /\ miss' = r.miss
        /\ recency' = Touch(cluster_index)
        /\ gap' = OthersSince(cluster_index)
        /\ lastData' = DictSet(lastData, <<cluster_index, blob_index>>, r.val)
        /\ UNCHANGED <<dir, beyond, clusters, blobs,
                       probed, index_file, reader, position, lookups>>

NextCache == CacheReadBlob

SpecCache == InitCache /\ [][NextCache]_vars

-----------------------------------------------------------------------------
(* Iteration and reads by index, on archives with two entries of           *)
(* namespace A between entries of other namespaces                         *)

\* The article entries of these archives, in increasing order of full URL:
\* -/b, A/B, A/b, I/b.
IterCorpus == <<
    [mimetype |-> 1, namespace |-> 45, url |-> <<98>>, title |-> "",
     clusterNumber |-> 1, blobNumber |-> 0],
    [mimetype |-> 0, namespace |-> NsA, url |-> <<66>>, title |-> "Bee",
     clusterNumber |-> 0, blobNumber |-> 0],
    [mimetype |-> 0, namespace |-> NsA, url |-> <<98>>, title |-> "bee",
     clusterNumber |-> 0, blobNumber |-> 1],
    [mimetype |-> 1, namespace |-> 73, url |-> <<98>>, title |-> "Bee",
     clusterNumber |-> 1, blobNumber |-> 1] >>

\* The directories over the IterCorpus entries picked by `keys`: each entry
\* is the article itself or a redirect to any index of the directory.
IterDirsOver(keys) ==
    LET n == Len(keys) IN
    { [i \in 1..n |-> IF kind[i] = n THEN IterCorpus[keys[i]]
                      ELSE RedirectEntry(IterCorpus[keys[i]], kind[i])] :
        kind \in [1..n -> 0..n] }

IterDirectories ==
    UNION { IterDirsOver(Sorted(S)) :
        S \in { T \in SUBSET (1..Len(IterCorpus)) : Cardinality(T) <= MaxEntries } }

\* What the generator of ZIMFile.__iter__ yields for one entry
Yielded(entry, idx) ==
    [fullUrl |-> full_url(entry.namespace, entry.url), title |-> entry.title,
     idx |-> idx]

\* iter_loop that yields the entries of every namespace
RECURSIVE iter_loop_every_namespace(_)
iter_loop_every_namespace(idx) ==
    IF idx >= articleCount THEN <<>>
    ELSE LET entry == read_directory_entry_by_index(idx)
         IN <<Yielded(entry, idx)>> \o iter_loop_every_namespace(idx + 1)

\* The loop of ZIMFile.__iter__ from index idx on: what it yields, in order
RECURSIVE iter_loop(_)
iter_loop(idx) ==
    IF idx >= articleCount THEN <<>>
    ELSE LET entry == read_directory_entry_by_index(idx)
         IN IF entry.namespace = NsA
            THEN <<Yielded(entry, idx)>> \o iter_loop(idx + 1)
            ELSE iter_loop(idx + 1)

InitDirectory ==
    /\ dir \in IterDirectories
    /\ beyond \in {Raise("struct.error"), IterCorpus[Len(IterCorpus)]}
    /\ clusters = CorpusClusters
    /\ blobs = CorpusBlobs
    /\ cache = <<>>
    /\ call = [op |-> "init"]
    /\ ret = None
    /\ miss = FALSE
    /\ recency = <<>>
    /\ lastData = <<>>
    /\ gap = -1
    /\ Unused

\* list(iter(zim)): the generator of ZIMFile.__iter__ run to its end
Iterate ==
    /\ call' = [op |-> "iter"]
    /\ ret' = [yielded |-> iter_loop(0)]
    /\ UNCHANGED <<dir, beyond, clusters, blobs, cache, miss, recency, lastData,
                   gap, probed, index_file, reader, position, lookups>>

\* ZIMFile.read_directory_entry_by_index(index), for indices in and past
\* the URL-pointer table
ReadDirectoryEntryByIndex ==
    \E index \in 0..(articleCount + 1) :
        /\ call' = [op |-> "read_directory_entry_by_index", index |-> index]
        /\ ret' = read_directory_entry_by_index(index)
        /\ UNCHANGED <<dir, beyond, clusters, blobs, cache, miss, recency,
                       lastData, gap, probed, index_file, reader, position,
                       lookups>>

NextDirectory == Iterate \/ ReadDirectoryEntryByIndex

SpecDirectory == InitDirectory /\ [][NextDirectory]_vars

-----------------------------------------------------------------------------
(* The index store of ZIMServer: _bootstrap on the archives above, run to  *)
(* its end or interrupted while it builds the store                        *)

\* The rows _bootstrap inserts: (docid, title) for what the iteration yields
index_rows ==
    LET articles == iter_loop(0)
    IN { [docid |-> articles[k].idx, title |-> articles[k].title] :
            k \in 1..Len(articles) }

\* _bootstrap that closes the connection without commit: the inserts are lost
bootstrap_uncommitted(store) ==
    IF store = Absent
    THEN [table |-> TRUE, rows |-> {}]
    ELSE store

\* _bootstrap that builds the store whether or not the file exists
bootstrap_rebuild(store) ==
    [table |-> TRUE, rows |-> index_rows]

\* ZIMServer._bootstrap run to its end: the store at the index path
\* afterwards.  The table is created and the rows are inserted and
\* committed only if no file is at the path.
bootstrap(store) ==
    IF store = Absent
    THEN [table |-> TRUE, rows |-> index_rows]
    ELSE store

\* The points at which the process may end while _bootstrap builds the
\* store: after sqlite3.connect has created the file, after the table is
\* created, and between the inserts and the commit
InterruptPoints == {"connect", "create", "insert"}

\* The store a build leaves behind when the process ends at `point`: an
\* empty file, or the table without rows (CREATE is committed as it is
\* executed, the inserts are rolled back without the commit)
interrupted_store(point) ==
    IF point = "connect" THEN [table |-> FALSE, rows |-> {}]
    ELSE [table |-> TRUE, rows |-> {}]

InitBootstrap ==
    /\ dir \in IterDirectories
    /\ beyond = Raise("struct.error")
    /\ clusters = CorpusClusters
    /\ blobs = CorpusBlobs
    /\ cache = <<>>
    /\ call = [op |-> "init"]
    /\ ret = None
    /\ miss = FALSE
    /\ recency = <<>>
    /\ lastData = <<>>
    /\ gap = -1
    /\ Unused

\* ZIMServer._bootstrap(index_file), run to its end: it returns a
\* connection to the store at the path
Bootstrap ==
    /\ call' = [op |-> "bootstrap", existed |-> index_file # Absent]
    /\ index_file' = bootstrap(index_file)
    /\ ret' = [connection |-> index_file']
    /\ UNCHANGED <<dir, beyond, clusters, blobs, cache, miss, recency, lastData,
                   gap, probed, reader, position, lookups>>

\* ZIMServer._bootstrap(index_file) on a path without a file, with the
\* process ended while the store is built: nothing is returned
BootstrapInterrupted ==
    \E point \in InterruptPoints :
        /\ index_file = Absent
        /\ call' = [op |-> "bootstrap_interrupted", point |-> point]
        /\ index_file' = interrupted_store(point)
        /\ ret' = None
        /\ UNCHANGED <<dir, beyond, clusters, blobs, cache, miss, recency,
                       lastData, gap, probed, reader, position, lookups>>

NextBootstrap == Bootstrap \/ BootstrapInterrupted

SpecBootstrap == InitBootstrap /\ [][NextBootstrap]_vars

-----------------------------------------------------------------------------
(* Zero-terminated strings: read_zero_terminated on files of few bytes,    *)
(* one read(1) per step                                                    *)

\* The files: every byte string of up to MaxFileLen bytes over the
\* terminator, a letter and a byte that is not valid UTF-8 on its own
FileBytes == {ZERO, 97, 200}
Files == SeqsUpTo(FileBytes, MaxFileLen)

\* field.decode(encoding, errors="ignore") for these bytes: the bytes that
\* decode to no character are dropped
decode(field) == SelectSeq(field, LAMBDA b : b < 128)

InitString ==
    /\ dir = <<>>
    /\ beyond = Raise("struct.error")
    /\ clusters = <<>>
    /\ blobs = <<>>
    /\ cache = <<>>
    /\ call = [op |-> "init"]
    /\ ret = None
    /\ miss = FALSE
    /\ recency = <<>>
    /\ lastData = <<>>
    /\ gap = -1
    /\ probed = {}
    /\ index_file = Absent
    /\ \E file \in Files :
        reader = [pc |-> "open", file |-> file, pos |-> 0, field |-> <<>>,
                  eof_reads |-> 0]
    /\ position = 0
    /\ lookups = [p \in Procs |-> NoLookup]

\* read_zero_terminated(file, encoding) is called with the file at `pos`,
\* where its caller has left it
StartRead ==
    \E pos \in 0..Len(reader.file) :
        /\ reader.pc \in {"open", "done"}
        /\ reader' = [reader EXCEPT !.pc = "reading", !.pos = pos,
                                    !.field = <<>>, !.eof_reads = 0]
        /\ call' = [op |-> "read_zero_terminated", pos |-> pos]
        /\ ret' = None
        /\ UNCHANGED <<dir, beyond, clusters, blobs, cache, miss, recency,
                       lastData, gap, probed, index_file, position, lookups>>

\* One step of iter(partial(file.read, 1), ZERO) under b"".join: the byte
\* read ends the iteration if it is ZERO and is joined to the field
\* otherwise; at the end of the file read(1) returns b"", which is not ZERO.
\* The model follows the reads at the end of the file up to MaxEofReads.
ReadByte ==
    /\ reader.pc = "reading"
    /\ reader.eof_reads < MaxEofReads
    /\ LET b == read(reader.file, reader.pos, 1) IN
       IF b = <<ZERO>>
       THEN /\ reader' = [reader EXCEPT !.pc = "done", !.pos = @ + 1]
            /\ ret' = Str(decode(reader.field))
       ELSE /\ reader' = [reader EXCEPT !.field = @ \o b, !.pos = @ + Len(b),
                                        !.eof_reads = IF b = <<>> THEN @ + 1
                                                      ELSE @]
            /\ ret' = ret
    /\ UNCHANGED <<dir, beyond, clusters, blobs, cache, call, miss, recency,
                   lastData, gap, probed, index_file, position, lookups>>

NextString == StartRead \/ ReadByte

SpecString == InitString /\ [][NextString]_vars

-----------------------------------------------------------------------------
(* The helper binary_search, on strictly increasing functions over an      *)
(* initial segment of the naturals                                         *)

\* The functions searched: func(i) = f[i + 1] for a strictly increasing
\* sequence f of up to MaxItems values of 0..MaxItems
SearchValues == 0..MaxItems

IncreasingSeqs ==
    { f \in SeqsUpTo(SearchValues, MaxItems) :
        \A i \in 1..(Len(f) - 1) : f[i] < f[i + 1] }

\* The loop of binary_search: the index found, or None
RECURSIVE binary_search_loop(_, _, _, _)
binary_search_loop(func, item, front, end) ==
    IF ~(front < end) THEN None
    ELSE LET middle == (front + end) \div 2
             found_item == func[middle + 1]
         IN IF found_item = item THEN Num(middle)
            ELSE IF found_item < item
            THEN binary_search_loop(func, item, middle + 1, end)
            ELSE binary_search_loop(func, item, front, middle - 1)

\* binary_search(func, item, front, end)
binary_search(func, item, front, end) ==
    binary_search_loop(func, item, front, end)

InitSearch ==
    /\ dir = <<>>
    /\ beyond = Raise("struct.error")
    /\ clusters = <<>>
    /\ blobs = <<>>
    /\ cache = <<>>
    /\ call = [op |-> "init"]
    /\ ret = None
    /\ miss = FALSE
    /\ recency = <<>>
    /\ lastData = <<>>
    /\ gap = -1
    /\ Unused

\* binary_search(func, item, front, end) on a range [front, end) of the
\* domain of func
BinarySearch ==
    \E func \in IncreasingSeqs, item \in SearchValues :
    \E front \in 0..Len(func) :
    \E end \in front..Len(func) :
        /\ call' = [op |-> "binary_search", func |-> func, item |-> item,
                    front |-> front, end |-> end]
        /\ ret' = binary_search(func, item, front, end)
        /\ UNCHANGED <<dir, beyond, clusters, blobs, cache, miss, recency,
                       lastData, gap, probed, index_file, reader, position,
                       lookups>>

NextSearch == BinarySearch

SpecSearch == InitSearch /\ [][NextSearch]_vars

-----------------------------------------------------------------------------
(* Two lookups on one archive handle: read_directory_entry_by_index run by *)
(* two callers at once, each seek and each read of the shared file a step  *)

\* The file: the header, the URL-pointer table at urlPtrPos and, after the
\* table, the directory entries one after the other.
urlPtrPos == 80

\* The bytes an entry takes: the fields of ARTICLE_ENTRY or REDIRECT_ENTRY,
\* then url and title, each with its terminator
entry_size(entry) ==
    (IF IsRedirect(entry) THEN 12 ELSE 16)
        + Len(entry.url) + 1 + Len(entry.title) + 1

RECURSIVE EntryPos(_)
EntryPos(i) ==
    IF i = 0 THEN urlPtrPos + 8 * articleCount
    ELSE EntryPos(i - 1) + entry_size(dir[i])

\* An entry decoded from bytes that are not the bytes of an entry
Garbled == [garbled |-> TRUE]

\* unpack("<Q", file.read(8)) at position pos: the offset of entry j in
\* slot j of the URL-pointer table; anywhere else, in these files, a number
\* that is the offset of no entry (0, the start of the header)
read_url_pointer(pos) ==
    IF \E j \in 0..(articleCount - 1) : pos = urlPtrPos + 8 * j
    THEN EntryPos((pos - urlPtrPos) \div 8)
    ELSE 0

\* unpack("<H", file.read(2)) at position pos: the mimetype of the entry
\* that starts there; anywhere else, in these files, not 0xffff
read_mimetype(pos) ==
    IF \E j \in 0..(articleCount - 1) : pos = EntryPos(j)
    THEN dir[(CHOOSE j \in 0..(articleCount - 1) : pos = EntryPos(j)) + 1].mimetype
    ELSE 0

\* DirectoryBlock.unpack_from_file with the file at position pos: the entry
\* that starts there if it is of the kind the block decodes, and a garbled
\* entry from any other bytes
unpack_entry(redirect, pos) ==
    IF \E j \in 0..(articleCount - 1) :
        pos = EntryPos(j) /\ IsRedirect(dir[j + 1]) = redirect
    THEN dir[(CHOOSE j \in 0..(articleCount - 1) : pos = EntryPos(j)) + 1]
    ELSE Garbled

\* The bytes that unpack_entry reads: those of the entry, or the fields of
\* the block and two terminators
unpacked_size(redirect, pos) ==
    LET entry == unpack_entry(redirect, pos)
    IN IF entry = Garbled THEN (IF redirect THEN 12 ELSE 16) + 2
       ELSE entry_size(entry)

\* An archive of an article, a redirect to it and another article
ConcurrentDir ==
    <<IterCorpus[1], RedirectEntry(IterCorpus[2], 0), IterCorpus[3]>>

InitConcurrent ==
    /\ dir = ConcurrentDir
    /\ beyond = Raise("struct.error")
    /\ clusters = CorpusClusters
    /\ blobs = CorpusBlobs
    /\ cache = <<>>
    /\ call = [op |-> "init"]
    /\ ret = None
    /\ miss = FALSE
    /\ recency = <<>>
    /\ lastData = <<>>
    /\ gap = -1
    /\ Unused

\* What a step of lookup p leaves alone
LookupFrame ==
    UNCHANGED <<dir, beyond, clusters, blobs, cache, call, ret, miss, recency,
                lastData, gap, probed, index_file, reader>>

\* Lookup p moves on to `pc`, with its local `field` set to `value`
Advance(p, pc, field, value) ==
    lookups' = [lookups EXCEPT ![p] =
        [f \in DOMAIN lookups[p] \cup {field} |->
            IF f = "pc" THEN pc ELSE IF f = field THEN value ELSE lookups[p][f]]]

\* A caller enters read_directory_entry_by_index(index)
StartLookup(p) ==
    \E index \in 0..(articleCount - 1) :
        /\ lookups[p].pc = "idle"
        /\ lookups' = [lookups EXCEPT ![p] =
                        [pc |-> "seek_url_offset", index |-> index]]
        /\ UNCHANGED position
        /\ LookupFrame

\* _read_offset: self.file.seek(urlPtrPos + 8 * index)
SeekUrlOffset(p) ==
    /\ lookups[p].pc = "seek_url_offset"
    /\ position' = urlPtrPos + 8 * lookups[p].index
    /\ Advance(p, "read_url_offset", "pc", "read_url_offset")
    /\ LookupFrame

\* _read_offset: unpack("<Q", self.file.read(8)), from where the file is
ReadUrlOffset(p) ==
    /\ lookups[p].pc = "read_url_offset"
    /\ Advance(p, "seek_entry", "offset", read_url_pointer(position))
    /\ position' = position + 8
    /\ LookupFrame

\* _read_directory_entry: self.file.seek(offset)
SeekEntry(p) ==
    /\ lookups[p].pc = "seek_entry"
    /\ position' = lookups[p].offset
    /\ Advance(p, "read_mimetype", "pc", "read_mimetype")
    /\ LookupFrame

\* _read_directory_entry: unpack("<H", self.file.read(2)), from where the
\* file is, and the choice of the block by it
ReadMimetype(p) ==
    /\ lookups[p].pc = "read_mimetype"
    /\ Advance(p, "seek_block", "redirect", read_mimetype(position) = RedirectMime)
    /\ position' = position + 2
    /\ LookupFrame

\* Block._unpack_from_file: file.seek(offset)
SeekBlock(p) ==
    /\ lookups[p].pc = "seek_block"
    /\ position' = lookups[p].offset
    /\ Advance(p, "read_block", "pc", "read_block")
    /\ LookupFrame

\* DirectoryBlock.unpack_from_file: the reads of the fields, the url and the
\* title, from where the file is; read_directory_entry_by_index then sets
\* the index and returns
ReadBlock(p) ==
    /\ lookups[p].pc = "read_block"
    /\ Advance(p, "done", "result",
               WithIndex(unpack_entry(lookups[p].redirect, position),
                         lookups[p].index))
    /\ position' = position + unpacked_size(lookups[p].redirect, position)
    /\ LookupFrame

NextConcurrent ==
    \E p \in Procs :
        \/ StartLookup(p)
        \/ SeekUrlOffset(p)
        \/ ReadUrlOffset(p)
        \/ SeekEntry(p)
        \/ ReadMimetype(p)
        \/ SeekBlock(p)
        \/ ReadBlock(p)

SpecConcurrent == InitConcurrent /\ [][NextConcurrent]_vars

-----------------------------------------------------------------------------
(* What the claims speak of, stated on the archive itself *)

\* The index reached from index i after at most n redirect steps
RECURSIVE Walk(_, _)
Walk(i, n) ==
    IF n = 0 \/ ~IsRedirect(dir[i + 1]) THEN i
    ELSE Walk(dir[i + 1].redirectIndex, n - 1)

\* The end of the redirect chain from i; an article entry unless the chain
\* runs into a cycle (articleCount steps visit some entry twice)
Terminal(i) == Walk(i, articleCount)
Acyclic(i) == ~IsRedirect(dir[Terminal(i) + 1])

\* The bytes the writer stored for an article entry, and the Article made of it
BlobOf(entry) == blobs[entry.clusterNumber + 1][entry.blobNumber + 1]
ArticleOf(entry) ==
    Article(Bytes(BlobOf(entry)), entry.namespace,
            Str(mimetype_list[entry.mimetype + 1]))

\* The indices at which the directory holds (namespace, url)
IndicesOf(namespace, url) ==
    { i \in 0..(articleCount - 1) :
        dir[i + 1].namespace = namespace /\ dir[i + 1].url = url }

\* The maximal trailing run of entries of namespace M
TailRun ==
    { i \in 0..(articleCount - 1) :
        \A j \in i..(articleCount - 1) : dir[j + 1].namespace = NsM }

-----------------------------------------------------------------------------
(* Claims *)

\* C1: for every index i whose entry is an article entry, i = 0 included,
\* get_article_by_url(namespace(i), url(i)) returns the Article of that
\* entry's blob bytes and mimetype string, never None.
C1_ArticleByUrl ==
    call.op = "get_article_by_url" =>
        \A i \in IndicesOf(call.namespace, call.url) :
            ~IsRedirect(dir[i + 1]) => ret = ArticleOf(dir[i + 1])

\* C2: in a directory strictly increasing by full URL, the binary search for
\* (namespace(i), url(i)) returns the entry at index i together with i.
C2_LookupIndexDuality ==
    (call.op = "get_entry_by_url" /\ ~call.linear /\ IsSorted(dir)) =>
        \A i \in IndicesOf(call.namespace, call.url) :
            ret = [entry |-> WithIndex(dir[i + 1], i), idx |-> Num(i)]

C2_Witness ==
    /\ call.op = "get_entry_by_url" /\ ~call.linear
    /\ articleCount = MaxEntries
    /\ 0 \in IndicesOf(call.namespace, call.url)
    /\ ret = [entry |-> WithIndex(dir[1], 0), idx |-> Num(0)]

\* C3: for every key, present or absent, and every sorted archive, the empty
\* one included, the binary search returns what the linear scan returns and
\* raises nothing.
C3_BinaryEqualsLinear ==
    (call.op = "get_entry_by_url" /\ ~call.linear) =>
        /\ ~IsRaise(ret)
        /\ ret = get_entry_by_url(call.namespace, call.url, TRUE)

C5_NoFollow ==
    [][(call'.op = "get_article_by_index" /\ ~call'.follow_redirect
            /\ IsRedirect(dir[call'.index + 1])) =>
        /\ ret' = Article(None, dir[call'.index + 1].namespace,
                          Num(dir[call'.index + 1].redirectIndex))
        /\ cache' = cache
        /\ ~miss']_vars

\* a redirect to a redirect, not followed: the index of the immediate target
C5_Witness ==
    /\ call.op = "get_article_by_index" /\ ~call.follow_redirect
    /\ IsRedirect(dir[call.index + 1])
    /\ IsRedirect(dir[dir[call.index + 1].redirectIndex + 1])
    /\ Terminal(call.index) # dir[call.index + 1].redirectIndex
    /\ ret.mimetype = Num(dir[call.index + 1].redirectIndex)

\* C6: on a redirect cycle, following ends with a RedirectCycle error.
C6_CycleRaisesRedirectCycle ==
    (call.op = "get_article_by_index" /\ call.follow_redirect
        /\ ~Acyclic(call.index)) =>
        ret = Raise("RedirectCycle")

\* The map metadata() is to return: a key per lowercased url of the
\* trailing run; the scan runs downward, so of the entries that share a
\* lowercased url the one of lowest index is assigned last
ExpectedMetadata ==
    [k \in {lower(dir[i + 1].url) : i \in TailRun} |->
        LET i == CHOOSE j \in TailRun :
                    /\ lower(dir[j + 1].url) = k
                    /\ \A h \in TailRun : lower(dir[h + 1].url) = k => j <= h
        IN Bytes(BlobOf(dir[Terminal(i) + 1]))]

\* C10 as claimed: metadata() returns exactly one key per entry of the
\* maximal trailing run of namespace M, the entry's url lowercased, with the
\* entry's article bytes as value.
C10_OneKeyPerEntry ==
    (call.op = "metadata" /\ ~IsRaise(ret)) =>
        /\ Cardinality(DOMAIN ret.dict) = Cardinality(TailRun)
        /\ \A i \in TailRun :
            /\ lower(dir[i + 1].url) \in DOMAIN ret.dict
            /\ ret.dict[lower(dir[i + 1].url)] = Bytes(BlobOf(dir[Terminal(i) + 1]))

\* C10 as amended: the keys of the map metadata() returns are exactly the
\* lowercased urls of the maximal trailing run of namespace M, one key per
\* distinct lowercased url, whose value is the article bytes of the entry of
\* lowest index among those of the run with that lowercased url; no entry at
\* or below the first other namespace from the tail contributes.
C10_MetadataOfTailRun ==
    (call.op = "metadata" /\ \A i \in TailRun : Acyclic(i)) =>
        ret = [dict |-> ExpectedMetadata]

\* two entries of the run share a lowercased url, after an entry of
\* another namespace
C10_Witness ==
    /\ call.op = "metadata"
    /\ Cardinality(TailRun) = 2
    /\ articleCount = 3
    /\ \A i \in TailRun : ~IsRedirect(dir[i + 1])
    /\ Cardinality(DOMAIN ret.dict) = 1
    /\ ret = [dict |-> ExpectedMetadata]

\* The ClusterData the last _read_blob used: the most recently used of the cache
LastClusterData == cache[Len(cache)]

\* C7: for a cluster of k blobs, raw or compressed, whose offset table has
\* k + 1 entries and starts with 4 * (k + 1), ClusterData stores k + 1
\* offsets, and for i < k read_blob(i) returns the bytes of the body in
\* [offset[i], offset[i + 1]), which are the i-th blob.
C7_BlobTable ==
    call.op = "read_blob" =>
        LET blob_list == blobs[call.cluster_index + 1]
            k == Len(blob_list)
            body == ClusterBody(blob_list)
            offsets == LastClusterData.offsets
            i == call.blob_index
        IN /\ unpack_I(SubSeq(body, 1, 4)) = 4 * (k + 1)
           /\ Len(offsets) = k + 1
           /\ i < k =>
                /\ ret = Bytes(blob_list[i + 1])
                /\ ret = Bytes(SubSeq(body, offsets[i + 1] + 1, offsets[i + 2]))
                /\ Len(ret.bytes) = offsets[i + 2] - offsets[i + 1]

\* the second of two blobs of a compressed cluster
C7_Witness ==
    /\ call.op = "read_blob" /\ call.blob_index = 1
    /\ Len(blobs[1]) = 2
    /\ LastClusterData.compressed
    /\ Len(LastClusterData.offsets) = 3
    /\ ret = Bytes(blobs[1][2]) /\ Len(ret.bytes) = MaxBlobLen

\* C8: for a cluster of k blobs read_blob(j) fails with the
\* blob-out-of-range error for every j >= k and for no j < k.
C8_BlobOutOfRange ==
    call.op = "read_blob" =>
        LET k == Len(blobs[call.cluster_index + 1])
        IN IF call.blob_index >= k THEN ret = Raise("IOError")
           ELSE ~IsRaise(ret)

\* two blobs: index 2 fails
C8_Witness ==
    /\ call.op = "read_blob" /\ call.blob_index = 2
    /\ Len(blobs[1]) = 2
    /\ ret = Raise("IOError")

\* C9: reading a (cluster_index, blob_index) again returns the bytes the
\* read before returned, and builds no ClusterData if fewer than 32 other
\* clusters were read since the cluster was last read.
C9_SecondReadFromCache ==
    [][LET key == <<call'.cluster_index, call'.blob_index>>
       IN (call'.op = "read_blob" /\ key \in DOMAIN lastData) =>
            /\ ret' = lastData[key]
            /\ OthersSince(key[1]) < CacheSize => ~miss']_vars

\* a blob read again after CacheSize - 1 other clusters, with no ClusterData built
C9_Witness ==
    /\ call.op = "read_blob" /\ call.cluster_index = 0
    /\ <<0, call.blob_index>> \in DOMAIN lastData
    /\ gap = CacheSize - 1
    /\ ~miss
    /\ ret = Bytes(blobs[1][call.blob_index + 1])

\* C15: every directory index the binary search of _get_entry_by_url reads
\* lies in [0, articleCount): on a miss it returns without reading the entry
\* at index articleCount or at a negative index.
C15_ProbesInRange ==
    (call.op = "get_entry_by_url" /\ ~call.linear) =>
        probed \subseteq 0..(articleCount - 1)

\* The indices of the entries of namespace A
IndicesA == { i \in 0..(articleCount - 1) : dir[i + 1].namespace = NsA }

\* C11: iterating a ZIMFile yields exactly one triple (fullUrl, title, index)
\* for each index in [0, articleCount) whose namespace is 'A', in increasing
\* index order, with fullUrl = namespace + '/' + url, and nothing for the
\* entries of other namespaces; the iteration is finite.
C11_IterYieldsNamespaceA ==
    call.op = "iter" =>
        LET order == Sorted(IndicesA)
        IN /\ Len(ret.yielded) = Cardinality(IndicesA)
           /\ \A k \in 1..Len(ret.yielded) :
                LET entry == dir[order[k] + 1]
                IN ret.yielded[k] =
                    [fullUrl |-> <<entry.namespace, Slash>> \o entry.url,
                     title |-> entry.title, idx |-> order[k]]

\* two entries of namespace A, one of them a redirect, after an entry of
\* another namespace
C11_Witness ==
    /\ call.op = "iter"
    /\ articleCount = 3
    /\ IndicesA = {1, 2}
    /\ \E i \in IndicesA : IsRedirect(dir[i + 1])
    /\ Len(ret.yielded) = 2
    /\ ret.yielded[1].idx = 1 /\ ret.yielded[2].idx = 2

\* C12: read_directory_entry_by_index(i) with i >= articleCount fails with
\* an IndexOutOfRange error; it never returns an entry decoded from the
\* bytes past the URL-pointer table.
C12_IndexOutOfRange ==
    (call.op = "read_directory_entry_by_index" /\ call.index >= articleCount) =>
        ret = Raise("IndexOutOfRange")

\* C13: for a cluster whose compressionType byte is neither 1 (raw) nor 4
\* (LZMA2) the construction of ClusterData fails with UnsupportedCompression:
\* the cluster is not read as if it were raw and no blob is returned from it.
C13_UnsupportedCompression ==
    (call.op = "read_blob"
        /\ clusters[call.cluster_index + 1].compressionType \notin {1, LZMA2}) =>
        /\ ret = Raise("UnsupportedCompression")
        /\ cache = <<>>

\* The rows of a complete index: one (docid, title) per entry of namespace A
ExpectedRows ==
    { [docid |-> i, title |-> dir[i + 1].title] : i \in IndicesA }

\* C14: when no index exists at the index path, _bootstrap creates it with
\* exactly one row (docid = directory index, title) for every entry the
\* iteration yields and nothing else; when an index exists at the path it
\* inserts nothing and returns a connection to the existing store unchanged.
C14_BootstrapBuildsOrReuses ==
    [][call'.op = "bootstrap" =>
        /\ ret' = [connection |-> index_file']
        /\ IF index_file = Absent
           THEN /\ ~call'.existed
                /\ index_file' = [table |-> TRUE, rows |-> ExpectedRows]
           ELSE /\ call'.existed
                /\ index_file' = index_file]_vars

\* a store of two rows, built from an archive with an entry of another
\* namespace before them, found and reused by a second _bootstrap
C14_Witness ==
    /\ call.op = "bootstrap" /\ call.existed
    /\ articleCount = 3 /\ IndicesA = {1, 2}
    /\ index_file = [table |-> TRUE, rows |-> ExpectedRows]
    /\ Cardinality(index_file.rows) = 2
    /\ ret = [connection |-> index_file]

\* A store with a row for every entry of namespace A
Complete(store) ==
    /\ store # Absent
    /\ store.table
    /\ ExpectedRows \subseteq store.rows

\* C20 as claimed: every store _bootstrap returns is complete; a store left
\* by an interrupted build is not returned as it is.
C20_ReturnedStoreComplete ==
    call.op = "bootstrap" => Complete(index_file)

\* C20 as amended: a store that exists at the path and is not complete
\* stays as it is, and _bootstrap returns a connection to it; the store
\* _bootstrap builds on a path without a file is complete.
C20_ReusedAsFound ==
    [][/\ (index_file # Absent /\ ~Complete(index_file)) =>
            /\ index_file' = index_file
            /\ call'.op = "bootstrap" => ret' = [connection |-> index_file]
       /\ (call'.op = "bootstrap" /\ index_file = Absent) =>
            Complete(index_file')]_vars

\* _bootstrap returns the store an interrupted build left: the table
\* without the rows of the two entries of namespace A
C20_Witness ==
    /\ call.op = "bootstrap" /\ call.existed
    /\ Cardinality(IndicesA) = 2
    /\ index_file = [table |-> TRUE, rows |-> {}]
    /\ ~Complete(index_file)
    /\ ret = [connection |-> index_file]

\* C16: reading a zero-terminated string from a source that reaches the end
\* of the file before a 0x00 ends with a Truncated error: once a read has
\* met the end of the file, the call has ended and has raised Truncated; it
\* reads no further and returns no string.
C16_TruncatedAtEof ==
    (reader.pc \in {"reading", "done"} /\ reader.eof_reads > 0) =>
        /\ reader.pc = "done"
        /\ ret = Raise("Truncated")

\* The offsets of the clusters whose ClusterData cache cch holds
CachedOffsets(cch) == { cch[i].offset : i \in 1..Len(cch) }

\* Of the clusters in the cache, the one whose last read is the longest ago
LeastRecentlyUsed ==
    recency[CHOOSE i \in 1..Len(recency) :
        /\ read_cluster_offset(recency[i]) \in CachedOffsets(cache)
        /\ \A j \in 1..(i - 1) :
            read_cluster_offset(recency[j]) \notin CachedOffsets(cache)]

\* C17: after every _read_blob the cache holds at most 32 ClusterData
\* objects, one per cluster; a ClusterData is built exactly on a miss; each
\* object built is the ClusterData of the cluster read and every other
\* cached object is one that was cached before, as it was; and a miss on a
\* full cache drops the least recently used cluster and no other.
C17_CacheBoundedLru ==
    [][call'.op = "read_blob" =>
        LET offset == read_cluster_offset(call'.cluster_index)
            hit == offset \in CachedOffsets(cache)
        IN /\ Len(cache') <= CacheSize
           /\ Len(cache') = Cardinality(CachedOffsets(cache'))
           /\ miss' <=> ~hit
           /\ \A i \in 1..Len(cache') :
                IF ~hit /\ cache'[i].offset = offset
                THEN cache'[i] = ClusterData(offset)
                ELSE \E j \in 1..Len(cache) : cache[j] = cache'[i]
           /\ CachedOffsets(cache') =
                IF hit THEN CachedOffsets(cache)
                ELSE IF Len(cache) < CacheSize
                THEN CachedOffsets(cache) \cup {offset}
                ELSE (CachedOffsets(cache)
                        \ {read_cluster_offset(LeastRecentlyUsed)})
                     \cup {offset}]_vars

\* the 33rd distinct cluster is read: cluster 1 is dropped, and cluster 0,
\* built before it and read again since, stays
C17_Witness ==
    /\ call.op = "read_blob" /\ call.cluster_index = CacheSize
    /\ miss /\ gap = -1
    /\ Len(cache) = CacheSize
    /\ read_cluster_offset(0) \in CachedOffsets(cache)
    /\ read_cluster_offset(1) \notin CachedOffsets(cache)
    /\ cache[Len(cache)] = ClusterData(read_cluster_offset(CacheSize))

\* C19: binary_search(func, item, front, end) on a range [front, end) over
\* which func is strictly increasing returns an index m of the range with
\* func(m) = item whenever there is one, and None exactly when item does
\* not occur in the range.
C19_BinarySearchFinds ==
    call.op = "binary_search" =>
        LET hits == { m \in call.front..(call.end - 1) :
                        call.func[m + 1] = call.item }
        IN IF hits = {} THEN ret = None
           ELSE ret \in { Num(m) : m \in hits }

\* C18: when two lookups on the same archive handle are interleaved, each
\* seek and each read a step, every lookup returns what it returns when run
\* alone: the entry at its index.
C18_LookupsIndependent ==
    \A p \in Procs :
        lookups[p].pc = "done" =>
            lookups[p].result = read_directory_entry_by_index(lookups[p].index)

====
